---- MODULE Spec2Model ----
(***************************************************************************)
(* NgSimpleStateBaseStore (ng-simple-state-base-store.ts) together with    *)
(* the NgSimpleStateDevTool it sends to and the RxJS pipeline selectState  *)
(* builds on the store's BehaviorSubject.                                  *)
(*                                                                         *)
(* JavaScript objects live in a heap and are named by references, because  *)
(* the code's behaviour depends on identity: Object.assign makes a new     *)
(* object, distinctUntilChanged() compares with ===.                       *)
(***************************************************************************)
EXTENDS Naturals, Sequences, FiniteSets, TLC

\* Bounds of the exploration.
MaxWrites == 2      \* setState / resetState / restartState calls in a run
MaxSubs == 1        \* subscriptions made through selectState in a run
MaxThrows == 1      \* calls in a run in which a collaborator throws
MaxIncs == 3        \* calls of the counter scenario
MaxCounterSubs == 2 \* subscriptions in the counter scenario

VARIABLES
    heap,                   \* the objects allocated so far; a reference is an index
    state,                  \* state$: the reference the BehaviorSubject holds (_value)
    isStopped,              \* state$ has completed
    firstState,             \* this.firstState (a reference)
    isArray,                \* this.isArray
    localStorageIsEnabled,  \* this.localStorageIsEnabled
    devToolIsEnabled,       \* this.devToolIsEnabled
    initial,                \* what initialState() returns (a fresh object of this content)
    storage,                \* the snapshot the persistence adapter holds under storeName
    loaded,                 \* the constructor took firstState from the persistence adapter
    isActiveDevtool,        \* NgSimpleStateDevTool.isActiveDevtool
    baseState,              \* NgSimpleStateDevTool.baseState[storeName]
    subs,                   \* the subscriptions of selectState, in subscription order
    tasks,                  \* asyncScheduler's queue of notifications not yet delivered
    delivered,              \* per subscription, what its callback has received
    destroyed,              \* ngOnDestroy has been called
    calls,                  \* the write calls made so far
    lastCall,               \* the last operation: its inputs, outcome and side effects
    twin,                   \* the state of the same store with both collaborators disabled
    outer,                  \* the setState call whose reducer is running, if any
    peer,                   \* a second store, of another name, sharing the dev tool
    peerBase                \* NgSimpleStateDevTool.baseState[the second store's name]

vars == <<heap, state, isStopped, firstState, isArray, localStorageIsEnabled,
          devToolIsEnabled, initial, storage, loaded, isActiveDevtool, baseState,
          subs, tasks, delivered, destroyed, calls, lastCall, twin,
          outer, peer, peerBase>>

----------------------------------------------------------------------------
\* JavaScript values.

\* An object: an array or a plain record, with its own enumerable properties.
\* An array's elements are its properties "0", "1", ...
Obj(arr, props) == [undef |-> FALSE, isArr |-> arr, props |-> props]

\* undefined (a reducer may return it; getItem returns it when nothing is stored).
Undefined == [undef |-> TRUE, isArr |-> FALSE, props |-> <<>>]

\* The literals [] and {} that the code passes to Object.assign as target.
Literal(arr) == Obj(arr, <<>>)

\* Array.isArray(v)
IsArray(v) == ~v.undef /\ v.isArr

\* !v is false for every object
Truthy(v) == ~v.undef

\* The own enumerable properties Object.assign copies from a source;
\* undefined is skipped.
OwnProps(v) == IF v.undef THEN <<>> ELSE v.props

\* Object.assign(target, source): target keeps its kind, the source's
\* properties overwrite the target's.
ObjectAssign(target, source) ==
    [target EXCEPT !.props =
        [k \in (DOMAIN target.props) \cup (DOMAIN OwnProps(source)) |->
            IF k \in DOMAIN OwnProps(source) THEN OwnProps(source)[k]
            ELSE target.props[k]]]

\* What a selector hands down the pipe: a number, undefined, or a reference.
Num(n) == [t |-> "num", v |-> n]
Undef == [t |-> "undef", v |-> 0]
Ref(r) == [t |-> "ref", v |-> r]
Absent == [t |-> "absent", v |-> 0]

\* a === b: numbers by value, objects by identity.
StrictEquals(a, b) == a = b

\* Deep equality of two values in heap h.
StructEquals(h, a, b) ==
    IF a.t = "ref" /\ b.t = "ref" THEN h[a.v] = h[b.v] ELSE a = b

----------------------------------------------------------------------------
\* The inputs of a run.

Rec(props) == Obj(FALSE, props)
Arr(props) == Obj(TRUE, props)

InitialStates == { Rec("count" :> 0), Arr(("0" :> 1) @@ ("1" :> 2) @@ ("2" :> 3)) }

Snapshots == { Undefined, Rec(("count" :> 2) @@ ("extra" :> 1)) }

Partials == { Undefined, Rec("extra" :> 1), Arr("0" :> 9) }

\* The reducers callers pass to setState.
Reducers == { [fn |-> "inc", ret |-> Undefined] }
            \cup { [fn |-> "const", ret |-> p] : p \in Partials }

\* s => ({count: s.count + 1})
Inc(s) == Rec("count" :> (s.props["count"] + 1))

\* stateFn(currState)
Apply(r, s) == IF r.fn = "inc" THEN Inc(s) ELSE r.ret

\* A reducer that reads s.count is only called where the state has one.
Applicable(r, s) == r.fn = "inc" => "count" \in DOMAIN s.props

Selectors == { "default", "count" }

\* <<enableDevTool, the extension is present>>. With the dev tool disabled
\* for the store the extension is never consulted.
DevToolModes == { <<FALSE, FALSE>>, <<TRUE, FALSE>>, <<TRUE, TRUE>> }

----------------------------------------------------------------------------
\* The persistence adapter (NgSimpleStateLocalStorage), by its interface:
\* getItem gives the snapshot stored under storeName, or undefined.
GetItem(stored) == stored

\* setItem stores a snapshot of the value under storeName.
SetItem(value) == value

----------------------------------------------------------------------------
\* The constructor.

\* Faulty variant: no fallback to initialState() when nothing is stored.
FirstStateNoFallback(lsEnabled, item, init) ==
    IF lsEnabled THEN item ELSE init

\* Faulty variant: the persistence adapter is read whether or not
\* persistence is enabled.
FirstStateIgnoresFlag(lsEnabled, item, init) ==
    IF ~Truthy(item) THEN init ELSE item

\* Lines 40-45: firstState is the stored snapshot when persistence is enabled
\* and getItem gave one, else initialState().

FirstStateOf(lsEnabled, item, init) ==
    LET fs == IF lsEnabled THEN item ELSE Undefined
    IN  IF ~Truthy(fs) THEN init ELSE fs

\* Line 50: the BehaviorSubject opens with Object.assign([] or {}, firstState).
OpeningState(fs) == ObjectAssign(Literal(IsArray(fs)), fs)

\* devToolSend / NgSimpleStateDevTool.send with a label given: the bridge is
\* reached when the dev tool is enabled for the store and active.
Bridged(enabled, active) == enabled /\ active

\* No setState call is waiting for its reducer to return.
NoCall == [active |-> FALSE, curr |-> 0, twin |-> Undefined,
           r |-> [fn |-> "-", ret |-> Undefined], at |-> 0]

\* The second store has not been constructed.
NoPeer == [phase |-> "none", state |-> Undefined]

\* An entry of baseState that holds the state of the second store.
Val(s) == [t |-> "val", v |-> s]

\* Faulty variant: the map is replaced by the sender's entry alone.
OtherEntriesDropped(entry) == Absent

\* Object.assign(this.baseState, {[storeName]: state}) leaves the entries
\* under the other names as they are.
OtherEntries(entry) == entry

Init ==
    \E ls \in BOOLEAN, mode \in DevToolModes,
       stored \in Snapshots, init \in InitialStates :
        LET fs == FirstStateOf(ls, GetItem(stored), init)
            dt == mode[1]
            active == mode[2]
        IN  /\ localStorageIsEnabled = ls
            /\ devToolIsEnabled = dt
            /\ isActiveDevtool = active
            /\ initial = init
            /\ storage = stored
            /\ loaded = (ls /\ Truthy(GetItem(stored)))
            /\ heap = << fs, OpeningState(fs) >>
            /\ firstState = 1
            /\ isArray = IsArray(fs)
            /\ state = 2
            /\ isStopped = FALSE
            /\ baseState = IF Bridged(dt, active) THEN Ref(1) ELSE Absent
            /\ subs = <<>>
            /\ tasks = <<>>
            /\ delivered = <<>>
            /\ destroyed = FALSE
            /\ calls = <<>>
            /\ lastCall = [op |-> "constructor", fn |-> "-", prev |-> 0,
                           newState |-> Undefined, merged |-> fs, out |-> "ok",
                           effects |-> (IF ls THEN << "getItem" >> ELSE <<>>)
                                       \o (IF Bridged(dt, active) THEN << "send" >> ELSE <<>>),
                           stopped |-> FALSE]
            /\ twin = OpeningState(FirstStateOf(FALSE, Undefined, init))
            /\ outer = NoCall
            /\ peer = NoPeer
            /\ peerBase = Absent

\* The first state of the store that has both collaborators disabled.
TwinFirst == FirstStateOf(FALSE, Undefined, initial)

\* getCurrentState(): state$.getValue(), the object the subject holds.
GetCurrentState == state

----------------------------------------------------------------------------
\* selectState: state$.pipe(map(selectFn), distinctUntilChanged(),
\* observeOn(asyncScheduler)).

\* s => s.count
SelectCount(s) == IF "count" \in DOMAIN s.props THEN Num(s.props["count"]) ELSE Undef

\* distinctUntilChanged(): the first value passes, a later one passes when it
\* is not === the last one that passed.
DistinctUntilChanged(hasKey, key, v) == ~hasKey \/ ~StrictEquals(v, key)

\* One value of the subject going down subscription i's pipe. The default
\* selector makes a new object, Object.assign([] or {}, tmpState).
Pipe(i, src, hp, ss, tq) ==
    LET copy == ss[i].sel = "default"
        hp1 == IF copy THEN Append(hp, ObjectAssign(Literal(isArray), hp[src])) ELSE hp
        v == IF copy THEN Ref(Len(hp1)) ELSE SelectCount(hp[src])
    IN  IF DistinctUntilChanged(ss[i].hasKey, ss[i].key, v)
        THEN [heap |-> hp1,
              subs |-> [ss EXCEPT ![i].hasKey = TRUE, ![i].key = v],
              tasks |-> Append(tq, [sub |-> i, kind |-> "next", val |-> v])]
        ELSE [heap |-> hp, subs |-> ss, tasks |-> tq]

\* Faulty variant: only the first observer is notified.
EmitToFirst(i, src, hp, ss, tq) ==
    IF i > 1 \/ i > Len(ss) THEN [heap |-> hp, subs |-> ss, tasks |-> tq]
    ELSE Pipe(i, src, hp, ss, tq)

\* Subject.next hands the value to every observer, in subscription order.
RECURSIVE Emit(_, _, _, _, _)
Emit(i, src, hp, ss, tq) ==
    IF i > Len(ss) THEN [heap |-> hp, subs |-> ss, tasks |-> tq]
    ELSE LET r == Pipe(i, src, hp, ss, tq)
         IN  Emit(i + 1, src, r.heap, r.subs, r.tasks)

\* Faulty variant: a subject that keeps notifying after it has completed.
NotifiesAlways(stopped) == TRUE

\* Subject.next notifies its observers unless the subject has stopped.

Notifies(stopped) == ~stopped

\* selectState(selectFn).subscribe(...): a BehaviorSubject hands a new
\* observer its current value; a completed one hands it the completion.
SubscribeWith(sel) ==
    /\ ~outer.active
    /\ LET i == Len(subs) + 1
           ss == Append(subs, [sel |-> sel, hasKey |-> FALSE, key |-> Undef,
                               at |-> Len(calls), done |-> FALSE])
           em == IF Notifies(isStopped) THEN Pipe(i, state, heap, ss, tasks)
                 ELSE [heap |-> heap, subs |-> ss,
                       tasks |-> Append(tasks, [sub |-> i, kind |-> "complete", val |-> Undef])]
       IN  /\ heap' = em.heap
           /\ subs' = em.subs
           /\ tasks' = em.tasks
    /\ delivered' = Append(delivered, <<>>)
    /\ UNCHANGED <<state, isStopped, firstState, isArray, localStorageIsEnabled,
                   devToolIsEnabled, initial, storage, loaded, isActiveDevtool,
                   baseState, destroyed, calls, lastCall, twin, outer, peer, peerBase>>

Subscribe(sel) == Len(subs) < MaxSubs /\ SubscribeWith(sel)

\* Faulty variant: a scheduler that runs the newest notification first.
DeliverNewest ==
    /\ ~outer.active
    /\ tasks # <<>>
    /\ LET t == tasks[Len(tasks)]
       IN  /\ tasks' = SubSeq(tasks, 1, Len(tasks) - 1)
           /\ IF t.kind = "next"
              THEN /\ delivered' = [delivered EXCEPT ![t.sub] =
                                      Append(@, [val |-> t.val, destroyed |-> destroyed])]
                   /\ subs' = subs
              ELSE /\ subs' = [subs EXCEPT ![t.sub].done = TRUE]
                   /\ delivered' = delivered
    /\ UNCHANGED <<heap, state, isStopped, firstState, isArray, localStorageIsEnabled,
                   devToolIsEnabled, initial, storage, loaded, isActiveDevtool,
                   baseState, destroyed, calls, lastCall, twin, outer, peer, peerBase>>

\* Faulty variant: a scheduler that runs its work inside the call that
\* scheduled it.
CallStackIgnored == TRUE

\* observeOn(asyncScheduler): a scheduled notification runs in a task of
\* its own, so never while a setState call is on the stack.
CallStackEmpty == ~outer.active

\* asyncScheduler runs the oldest scheduled notification: the subscriber's
\* callback receives the value, or the subscription completes.
Deliver ==
    /\ CallStackEmpty
    /\ tasks # <<>>
    /\ LET t == Head(tasks)
       IN  /\ tasks' = Tail(tasks)
           /\ IF t.kind = "next"
              THEN /\ delivered' = [delivered EXCEPT ![t.sub] =
                                      Append(@, [val |-> t.val, destroyed |-> destroyed])]
                   /\ subs' = subs
              ELSE /\ subs' = [subs EXCEPT ![t.sub].done = TRUE]
                   /\ delivered' = delivered
    /\ UNCHANGED <<heap, state, isStopped, firstState, isArray, localStorageIsEnabled,
                   devToolIsEnabled, initial, storage, loaded, isActiveDevtool,
                   baseState, destroyed, calls, lastCall, twin, outer, peer, peerBase>>

----------------------------------------------------------------------------
\* setState, resetState, restartState.

\* Faulty variants of the merge, used to show that the properties below
\* depend on it: the return value taken as is, the current state dropped,
\* the current array kept, the arguments of Object.assign swapped.
MergedKeepsReturn(arr, currState, newState) ==
    IF arr THEN newState
    ELSE ObjectAssign(ObjectAssign(Literal(FALSE), currState), newState)

MergedReplaces(arr, currState, newState) ==
    ObjectAssign(Literal(arr), newState)

MergedAppends(arr, currState, newState) ==
    ObjectAssign(ObjectAssign(Literal(arr), currState), newState)

MergedSwapped(arr, currState, newState) ==
    IF arr THEN ObjectAssign(Literal(TRUE), newState)
    ELSE ObjectAssign(ObjectAssign(Literal(FALSE), newState), currState)

\* Lines 121-126: the reducer's return value replaces an array-shaped state
\* and is merged over a copy of a record-shaped one.
Merged(arr, currState, newState) ==
    IF arr THEN ObjectAssign(Literal(TRUE), newState)
    ELSE ObjectAssign(ObjectAssign(Literal(FALSE), currState), newState)

\* The write calls so far that ended with an exception.
Thrown == Cardinality({ i \in 1..Len(calls) : calls[i].out # "ok" })

\* How a call can end: normally ("ok"), or with an exception thrown by the
\* stack introspection of devToolSend when no action name is given
\* ("stack"), by the dev tool extension's send ("send") or by the
\* persistence adapter's setItem ("setItem").

Outcomes(named) ==
    {"ok"}
    \cup (IF Thrown < MaxThrows /\ devToolIsEnabled /\ ~named THEN {"stack"} ELSE {})
    \cup (IF Thrown < MaxThrows /\ Bridged(devToolIsEnabled, isActiveDevtool)
          THEN {"send"} ELSE {})
    \cup (IF Thrown < MaxThrows /\ localStorageIsEnabled THEN {"setItem"} ELSE {})

\* Line 152: devTool.send is reached unless the introspection threw.
SendReached(out) == out # "stack"

\* Faulty variant: the merged state is never handed to the adapter.
SetItemNever(out) == FALSE

\* Lines 128-130: setItem is reached unless devToolSend threw.
SetItemReached(out) == out \notin {"stack", "send"}

\* Faulty variant: the state is published whatever the collaborators did.
NextAlways(out) == TRUE

\* Line 131: state$.next is reached unless devToolSend or setItem threw.
NextReached(out) == out = "ok"

\* The body of setState from line 121 on, for the state currState that line
\* 119 read (a reference) and the return value newState of the reducer;
\* twinCurr and twinNewState are the same two in the twin store.
WriteOver(curr, twinCurr, op, fn, newState, twinNewState, named, out) ==
    LET currState == heap[curr]
        merged == Merged(isArray, currState, newState)
        ref == Len(heap) + 1
        hp == Append(heap, merged)
        bridged == Bridged(devToolIsEnabled, isActiveDevtool) /\ SendReached(out)
        sent == bridged /\ out # "send"
        stored == localStorageIsEnabled /\ SetItemReached(out) /\ out # "setItem"
        published == NextReached(out)
        em == IF published /\ Notifies(isStopped)
              THEN Emit(1, ref, hp, subs, tasks)
              ELSE [heap |-> hp, subs |-> subs, tasks |-> tasks]
    IN  /\ heap' = em.heap
        /\ subs' = em.subs
        /\ tasks' = em.tasks
        /\ baseState' = IF bridged THEN Ref(ref) ELSE baseState
        /\ peerBase' = IF bridged THEN OtherEntries(peerBase) ELSE peerBase
        /\ storage' = IF stored THEN SetItem(merged) ELSE storage
        /\ state' = IF published THEN ref ELSE state
        /\ twin' = Merged(IsArray(TwinFirst), twinCurr, twinNewState)
        /\ calls' = Append(calls, [op |-> op, fn |-> fn, out |-> out,
                                   ref |-> IF published THEN ref ELSE 0])
        /\ lastCall' = [op |-> op, fn |-> fn, prev |-> state, newState |-> newState,
                        merged |-> merged, out |-> out,
                        effects |-> (IF sent THEN << "send" >> ELSE <<>>)
                                    \o (IF stored THEN << "setItem" >> ELSE <<>>)
                                    \o (IF published THEN << "next" >> ELSE <<>>),
                        stopped |-> isStopped]
        /\ UNCHANGED <<isStopped, firstState, isArray, localStorageIsEnabled,
                       devToolIsEnabled, initial, loaded, isActiveDevtool,
                       delivered, destroyed, peer>>

\* A setState call whose reducer calls nothing: lines 119-131 in one step.
Write(op, fn, newState, twinNewState, named, out) ==
    /\ WriteOver(state, twin, op, fn, newState, twinNewState, named, out)
    /\ UNCHANGED outer

\* setState(stateFn, actionName) with reducer r, named or not. The twin
\* store receives the same call, so the reducer must apply to its state too.
SetStateWith(r, named) ==
    /\ Applicable(r, heap[state])
    /\ Applicable(r, twin)
    /\ \E out \in Outcomes(named) :
           Write("setState", r.fn, Apply(r, heap[state]), Apply(r, twin), named, out)

SetState ==
    /\ Len(calls) < MaxWrites
    /\ \E r \in Reducers, named \in BOOLEAN : SetStateWith(r, named)

\* setState(() => this.firstState, 'resetState')
ResetState ==
    /\ Len(calls) < MaxWrites
    /\ \E out \in Outcomes(TRUE) :
           Write("resetState", "-", heap[firstState], TwinFirst, TRUE, out)

\* setState(() => this.initialState(), 'restartState')
RestartState ==
    /\ Len(calls) < MaxWrites
    /\ \E out \in Outcomes(TRUE) :
           Write("restartState", "-", initial, initial, TRUE, out)

----------------------------------------------------------------------------
\* A reducer that itself calls setState on the same store, in a
\* record-shaped store: setState(s => { this.setState(inner); return r(s); }).

\* The reducers of a record-shaped store: an increment, another field set.
RecordReducers == { [fn |-> "inc", ret |-> Undefined],
                    [fn |-> "const", ret |-> Rec("extra" :> 1)] }

\* Faulty variant: the current state read after the reducer has returned.
CurrStateReadLate(read, now) == now

\* Line 119: currState is read before stateFn is called, and line 125
\* merges over that object whatever the subject holds by then.
CurrStateOf(read, now) == read

\* Lines 119-120: the outer call reads the current state and calls stateFn.
ReentrantBegin ==
    /\ ~outer.active
    /\ Len(calls) + 2 <= MaxWrites
    /\ \E r \in RecordReducers :
          /\ Applicable(r, heap[state])
          /\ Applicable(r, twin)
          /\ outer' = [active |-> TRUE, curr |-> GetCurrentState, twin |-> twin,
                       r |-> r, at |-> Len(calls)]
    /\ UNCHANGED <<heap, state, isStopped, firstState, isArray, localStorageIsEnabled,
                   devToolIsEnabled, initial, storage, loaded, isActiveDevtool,
                   baseState, subs, tasks, delivered, destroyed, calls, lastCall,
                   twin, peer, peerBase>>

\* Inside stateFn: the inner setState call, lines 119-131.
ReentrantInner ==
    /\ outer.active
    /\ Len(calls) = outer.at
    /\ \E r \in RecordReducers : SetStateWith(r, TRUE)

\* stateFn returns and the outer call goes on from line 121, unless the
\* inner call threw: then the exception leaves the outer call too.
ReentrantReturn ==
    /\ outer.active
    /\ Len(calls) > outer.at
    /\ IF lastCall.out = "ok"
       THEN \E out \in Outcomes(TRUE) :
               WriteOver(CurrStateOf(outer.curr, state), outer.twin, "setState",
                         outer.r.fn, Apply(outer.r, heap[outer.curr]),
                         Apply(outer.r, outer.twin), TRUE, out)
       ELSE UNCHANGED <<heap, state, isStopped, firstState, isArray,
                        localStorageIsEnabled, devToolIsEnabled, initial, storage,
                        loaded, isActiveDevtool, baseState, subs, tasks, delivered,
                        destroyed, calls, lastCall, twin, peer, peerBase>>
    /\ outer' = NoCall

\* A setState call whose reducer calls nothing, outside any other call.
PlainSetState ==
    /\ ~outer.active
    /\ Len(calls) < MaxWrites
    /\ \E r \in RecordReducers : SetStateWith(r, TRUE)

----------------------------------------------------------------------------
\* ngOnDestroy: devToolSend(undefined, 'ngOnDestroy'), then state$.complete().

\* Subject.complete hands the completion to every observer.
Complete(tq, n) ==
    tq \o [i \in 1..n |-> [sub |-> i, kind |-> "complete", val |-> Undef]]

NgOnDestroy ==
    /\ ~destroyed
    /\ \E out \in Outcomes(TRUE) \ {"setItem"} :
        LET bridged == Bridged(devToolIsEnabled, isActiveDevtool)
            completes == out = "ok"
        IN  /\ baseState' = IF bridged THEN Undef ELSE baseState
            /\ peerBase' = IF bridged THEN OtherEntries(peerBase) ELSE peerBase
            /\ isStopped' = (isStopped \/ completes)
            /\ tasks' = IF completes /\ Notifies(isStopped)
                        THEN Complete(tasks, Len(subs)) ELSE tasks
            /\ lastCall' = [op |-> "ngOnDestroy", fn |-> "-", prev |-> state,
                            newState |-> Undefined, merged |-> Undefined, out |-> out,
                            effects |-> (IF bridged /\ out = "ok" THEN << "send" >> ELSE <<>>)
                                        \o (IF completes THEN << "complete" >> ELSE <<>>),
                            stopped |-> isStopped]
    /\ destroyed' = TRUE
    /\ UNCHANGED <<heap, state, firstState, isArray, localStorageIsEnabled,
                   devToolIsEnabled, initial, storage, loaded, isActiveDevtool,
                   subs, delivered, calls, twin, outer, peer>>

----------------------------------------------------------------------------
\* A store constructed again under the same storeName once its predecessor
\* has been torn down: the constructor, lines 28-51, returning normally. The
\* new instance's subject has no observers yet.
Construct ==
    /\ destroyed
    /\ ~outer.active
    /\ Len(calls) < MaxWrites
    /\ LET fs == FirstStateOf(localStorageIsEnabled, GetItem(storage), initial)
           bridged == Bridged(devToolIsEnabled, isActiveDevtool)
           ref == Len(heap) + 1
       IN  /\ heap' = heap \o << fs, OpeningState(fs) >>
           /\ firstState' = ref
           /\ state' = ref + 1
           /\ isArray' = IsArray(fs)
           /\ loaded' = (localStorageIsEnabled /\ Truthy(GetItem(storage)))
           /\ baseState' = IF bridged THEN Ref(ref) ELSE baseState
           /\ peerBase' = IF bridged THEN OtherEntries(peerBase) ELSE peerBase
           /\ calls' = Append(calls, [op |-> "constructor", fn |-> "-", out |-> "ok",
                                      ref |-> ref + 1])
           /\ lastCall' = [op |-> "constructor", fn |-> "-", prev |-> state,
                           newState |-> Undefined, merged |-> fs, out |-> "ok",
                           effects |-> (IF localStorageIsEnabled
                                        THEN << "getItem" >> ELSE <<>>)
                                       \o (IF bridged THEN << "send" >> ELSE <<>>),
                           stopped |-> FALSE]
    /\ isStopped' = FALSE
    /\ destroyed' = FALSE
    /\ subs' = <<>>
    /\ tasks' = <<>>
    /\ delivered' = <<>>
    /\ twin' = OpeningState(TwinFirst)
    /\ UNCHANGED <<localStorageIsEnabled, devToolIsEnabled, initial, storage,
                   isActiveDevtool, outer, peer>>

----------------------------------------------------------------------------
\* A second store, with a storeName of its own and enableDevTool true,
\* injected with the same NgSimpleStateDevTool: record-shaped, with
\* initialState() = {n: 0}, written to by setState(() => ({n: 1}), 'set').

PeerInitial == Rec("n" :> 0)

PeerPartial == Rec("n" :> 1)

\* NgSimpleStateDevTool.send for the second store: its entry of baseState
\* is assigned when the dev tool is active.
PeerSend(entry) ==
    /\ peerBase' = IF isActiveDevtool THEN entry ELSE peerBase
    /\ baseState' = IF isActiveDevtool THEN OtherEntries(baseState) ELSE baseState

\* The second store's constructor: devToolSend(firstState, 'initialState'),
\* then the subject opens with a copy.
PeerConstruct ==
    /\ peer.phase = "none"
    /\ ~outer.active
    /\ peer' = [phase |-> "live", state |-> OpeningState(PeerInitial)]
    /\ PeerSend(Val(PeerInitial))
    /\ UNCHANGED <<heap, state, isStopped, firstState, isArray, localStorageIsEnabled,
                   devToolIsEnabled, initial, storage, loaded, isActiveDevtool,
                   subs, tasks, delivered, destroyed, calls, lastCall, twin, outer>>

\* The second store's setState: merge, devToolSend, next.
PeerSetState ==
    /\ peer.phase = "live"
    /\ ~outer.active
    /\ LET merged == Merged(FALSE, peer.state, PeerPartial)
       IN  /\ peer' = [peer EXCEPT !.state = merged]
           /\ PeerSend(Val(merged))
    /\ UNCHANGED <<heap, state, isStopped, firstState, isArray, localStorageIsEnabled,
                   devToolIsEnabled, initial, storage, loaded, isActiveDevtool,
                   subs, tasks, delivered, destroyed, calls, lastCall, twin, outer>>

\* The second store's ngOnDestroy: devToolSend(undefined, 'ngOnDestroy'),
\* then its subject completes.
PeerDestroy ==
    /\ peer.phase = "live"
    /\ ~outer.active
    /\ peer' = [peer EXCEPT !.phase = "destroyed"]
    /\ PeerSend(Undef)
    /\ UNCHANGED <<heap, state, isStopped, firstState, isArray, localStorageIsEnabled,
                   devToolIsEnabled, initial, storage, loaded, isActiveDevtool,
                   subs, tasks, delivered, destroyed, calls, lastCall, twin, outer>>

----------------------------------------------------------------------------
\* Callers that keep a reference to an object of the store and write to it.

\* The field a caller assigns to: the first element of an array, the count
\* of a record.
FieldOf(obj) == IF IsArray(obj) THEN "0" ELSE "count"

\* obj[field] = 7, in place.
Assigned(obj) == [obj EXCEPT !.props[FieldOf(obj)] = 7]

\* The caller assigns to a field of the object at ref; lastCall keeps what
\* the subject held before the assignment.
Mutate(op, ref) ==
    /\ ~outer.active
    /\ FieldOf(heap[ref]) \in DOMAIN heap[ref].props
    /\ Assigned(heap[ref]) # heap[ref]
    /\ heap' = [heap EXCEPT ![ref] = Assigned(@)]
    /\ lastCall' = [op |-> op, fn |-> "-", prev |-> state,
                    newState |-> Undefined, merged |-> heap[state], out |-> "ok",
                    effects |-> <<>>, stopped |-> isStopped]
    /\ UNCHANGED <<state, isStopped, firstState, isArray, localStorageIsEnabled,
                   devToolIsEnabled, initial, storage, loaded, isActiveDevtool,
                   baseState, subs, tasks, delivered, destroyed, calls, twin,
                   outer, peer, peerBase>>

\* const s = store.getCurrentState(); s.count = 7
MutateCurrent == Mutate("mutateCurrent", GetCurrentState)

\* The caller assigns to a field of the object that initialState() (or the
\* persistence adapter) handed to the constructor: this.firstState.
MutateSupplied == Mutate("mutateSupplied", firstState)

----------------------------------------------------------------------------
\* The store and its subscribers: writes, subscriptions, the scheduler and
\* the teardown. The specifications after it follow the store in one
\* setting each: alone, over several lifetimes, with callers that keep
\* references, with reducers that call setState, next to a second store.
Next ==
    \/ SetState
    \/ ResetState
    \/ RestartState
    \/ \E sel \in Selectors : Subscribe(sel)
    \/ Deliver
    \/ NgOnDestroy

Spec == Init /\ [][Next]_vars

\* The store alone: its writes and its teardown, with nobody subscribed.
NextStore ==
    \/ SetState
    \/ ResetState
    \/ RestartState
    \/ NgOnDestroy

SpecStore == Init /\ [][NextStore]_vars

\* Subscribers of a record-shaped store that does not persist its state,
\* written to through setState (an increment, or another field set) and
\* torn down.
InitTeardown == Init /\ ~localStorageIsEnabled /\ storage = Undefined /\ ~isArray

TeardownSetState ==
    /\ Len(calls) < MaxWrites
    /\ \E r \in { [fn |-> "inc", ret |-> Undefined],
                   [fn |-> "const", ret |-> Rec("extra" :> 1)] },
          named \in BOOLEAN : SetStateWith(r, named)

NextTeardown ==
    \/ TeardownSetState
    \/ \E sel \in Selectors : Subscribe(sel)
    \/ Deliver
    \/ NgOnDestroy

SpecTeardown == InitTeardown /\ [][NextTeardown]_vars

\* The counter scenario: a store with initialState() = {count: 0} and the
\* default configuration, incremented through setState(.., 'inc').
InitCounter ==
    /\ Init
    /\ ~localStorageIsEnabled /\ ~devToolIsEnabled
    /\ storage = Undefined
    /\ initial = Rec("count" :> 0)

CounterInc ==
    /\ Len(calls) < MaxIncs
    /\ SetStateWith([fn |-> "inc", ret |-> Undefined], TRUE)

CounterSubscribe ==
    /\ Len(subs) < MaxCounterSubs
    /\ \E sel \in Selectors : SubscribeWith(sel)

NextCounter ==
    \/ CounterInc
    \/ CounterSubscribe
    \/ Deliver

SpecCounter == InitCounter /\ [][NextCounter]_vars

\* The store and callers that write to the objects they got from it or
\* gave to it.
NextAlias ==
    \/ SetState
    \/ ResetState
    \/ RestartState
    \/ MutateCurrent
    \/ MutateSupplied

SpecAlias == Init /\ [][NextAlias]_vars

\* The store over its lifetimes: written to, torn down and constructed
\* again from what the persistence adapter holds.
NextPersist ==
    \/ SetState
    \/ ResetState
    \/ RestartState
    \/ NgOnDestroy
    \/ Construct

SpecPersist == Init /\ [][NextPersist]_vars

\* A record-shaped store with subscribers, written to by plain calls and
\* by calls whose reducer calls setState.
InitReentrant == Init /\ ~isArray /\ storage = Undefined

NextReentrant ==
    \/ PlainSetState
    \/ ReentrantBegin
    \/ ReentrantInner
    \/ ReentrantReturn
    \/ \E sel \in Selectors : Subscribe(sel)
    \/ Deliver

SpecReentrant == InitReentrant /\ [][NextReentrant]_vars

\* A store that does not persist its state, written to while subscribers
\* come and receive; the scheduler runs every notification in the end.
InitSelect == Init /\ ~localStorageIsEnabled /\ storage = Undefined

NextSelect ==
    \/ SetState
    \/ \E sel \in Selectors : Subscribe(sel)
    \/ Deliver

SpecSelect == InitSelect /\ [][NextSelect]_vars /\ WF_vars(Deliver)

\* Several subscribers of a store with the default configuration.
InitSelectMany == InitSelect /\ ~devToolIsEnabled

NextSelectMany ==
    \/ SetState
    \/ CounterSubscribe
    \/ Deliver

SpecSelectMany == InitSelectMany /\ [][NextSelectMany]_vars

\* Two stores with the dev tool enabled, constructed, written to and torn
\* down in any order.
InitDevTool == Init /\ devToolIsEnabled

NextDevTool ==
    \/ SetState
    \/ ResetState
    \/ RestartState
    \/ NgOnDestroy
    \/ Construct
    \/ PeerConstruct
    \/ PeerSetState
    \/ PeerDestroy

SpecDevTool == InitDevTool /\ [][NextDevTool]_vars

----------------------------------------------------------------------------
\* Properties.

WriteOps == { "setState", "resetState", "restartState" }

\* The last operation was a write that returned normally.
Wrote == lastCall.op \in WriteOps /\ lastCall.out = "ok"

\* The values subscription s has received, in order.
Vals(s) == [i \in 1..Len(delivered[s]) |-> delivered[s][i].val]

\* The values scheduled for subscription s and not yet delivered, in order.
Pending(s) ==
    LET q == SelectSeq(tasks, LAMBDA t : t.sub = s /\ t.kind = "next")
    IN  [i \in 1..Len(q) |-> q[i].val]

\* C1: the state the subject holds is array-shaped exactly when the first
\* state held at construction was, whatever the reducers returned.
C1_ShapeInvariant == IsArray(heap[state]) = IsArray(heap[firstState])

C1_Witness ==
    /\ Wrote
    /\ ~lastCall.newState.undef
    /\ IsArray(lastCall.newState) # IsArray(heap[firstState])
    /\ state # lastCall.prev

\* C2: in a record-shaped store, after a write that returned normally the
\* state has exactly the fields of the previous state and of the partial;
\* a field of the partial has the partial's value, any other field keeps
\* its previous value.
C2_MergeLawRecord ==
    (Wrote /\ ~isArray) =>
        LET prev == heap[lastCall.prev].props
            part == OwnProps(lastCall.newState)
            cur == heap[state].props
        IN  /\ ~IsArray(heap[state])
            /\ DOMAIN cur = (DOMAIN prev) \cup (DOMAIN part)
            /\ \A k \in DOMAIN cur :
                   cur[k] = IF k \in DOMAIN part THEN part[k] ELSE prev[k]

C2_Witness ==
    /\ Wrote /\ ~isArray
    /\ lastCall.fn = "inc"
    /\ "extra" \in DOMAIN heap[lastCall.prev].props
    /\ heap[state].props["count"] # heap[lastCall.prev].props["count"]

\* C3: in an array-shaped store, after a write that returned normally with
\* the reducer returning an array, the state is that array: same length,
\* same elements, nothing of the previous array.
C3_MergeLawSequence ==
    (Wrote /\ isArray /\ IsArray(lastCall.newState)) =>
        heap[state] = lastCall.newState

C3_Witness ==
    /\ Wrote /\ isArray
    /\ heap[lastCall.prev] = Arr(("0" :> 1) @@ ("1" :> 2) @@ ("2" :> 3))
    /\ lastCall.newState = Arr("0" :> 9)
    /\ heap[state] = Arr("0" :> 9)

\* C4: two consecutive values delivered to one subscriber are never deeply
\* equal.
C4_SelectorDistinct ==
    \A s \in 1..Len(delivered) :
        \A i \in 1..(Len(delivered[s]) - 1) :
            ~StructEquals(heap, delivered[s][i].val, delivered[s][i + 1].val)

\* C5: after resetState has returned, the state equals the first state.
C5_ResetIdempotence ==
    (lastCall.op = "resetState" /\ lastCall.out = "ok") =>
        heap[state] = heap[firstState]

\* C6: in a store constructed from a stored snapshot that differs from
\* initialState(), the state equals initialState() after restartState and
\* the snapshot after resetState.
C6_RestartVsReset ==
    (loaded /\ heap[firstState] # initial /\ lastCall.out = "ok") =>
        /\ lastCall.op = "restartState" => heap[state] = initial
        /\ lastCall.op = "resetState" => heap[state] = heap[firstState]

C8_FailureIsolation ==
    (lastCall.op \in WriteOps /\ lastCall.out \in {"send", "setItem"}) =>
        heap[state] = lastCall.merged

\* C9: no value is delivered to a subscriber once ngOnDestroy has been
\* called.
C9_NoDeliveryAfterDestroy ==
    \A s \in 1..Len(delivered) :
        \A i \in 1..Len(delivered[s]) : ~delivered[s][i].destroyed

\* C9, amended: ngOnDestroy sends the terminal marker and then closes the
\* subject (a send that throws leaves it open); once the subject is closed
\* no step schedules a value for any subscriber: what a subscriber has
\* received plus what is still scheduled for it stays the same, so only
\* values published before the close are delivered after it.
C9_TeardownAmended ==
    [][ /\ (~destroyed /\ destroyed') =>
              /\ lastCall'.op = "ngOnDestroy"
              /\ isStopped' = (lastCall'.out = "ok")
              /\ lastCall'.out = "ok" =>
                    lastCall'.effects =
                        IF Bridged(devToolIsEnabled, isActiveDevtool)
                        THEN << "send", "complete" >> ELSE << "complete" >>
              /\ Bridged(devToolIsEnabled, isActiveDevtool) => baseState' = Undef
        /\ isStopped =>
              \A s \in 1..Len(subs') :
                  (Vals(s) \o Pending(s))' =
                      IF s <= Len(subs) THEN Vals(s) \o Pending(s) ELSE <<>>
      ]_vars

C9_Witness ==
    /\ isStopped
    /\ lastCall.op = "setState" /\ lastCall.out = "ok" /\ lastCall.stopped
    /\ tasks = <<>>
    /\ \E s \in 1..Len(delivered) :
          \E i \in 1..Len(delivered[s]) : delivered[s][i].destroyed

\* The counter scenario has run: three calls of the increment, all returned.
ThreeIncs ==
    /\ Len(calls) = 3
    /\ \A i \in 1..3 : calls[i].fn = "inc" /\ calls[i].out = "ok"
    /\ heap[firstState] = Rec("count" :> 0)

\* Subscription s selects s => s.count and has received all that was
\* scheduled for it.
CountDrained(s) == subs[s].sel = "count" /\ Pending(s) = <<>>

\* C10: after the three increments the snapshot is {count: 3} and a
\* subscriber of s => s.count has received exactly 1, 2, 3.
C10_CounterScenario ==
    \A s \in 1..Len(subs) :
        (ThreeIncs /\ CountDrained(s)) =>
            /\ heap[state] = Rec("count" :> 3)
            /\ Vals(s) = << Num(1), Num(2), Num(3) >>

\* C10, amended: a subscriber that subscribed before the first call has
\* received exactly 0, 1, 2, 3: the opening value, then the increments.
C10_CounterScenarioAmended ==
    \A s \in 1..Len(subs) :
        (ThreeIncs /\ CountDrained(s) /\ subs[s].at = 0) =>
            /\ heap[state] = Rec("count" :> 3)
            /\ Vals(s) = << Num(0), Num(1), Num(2), Num(3) >>

C10_Witness ==
    \E s \in 1..Len(subs) :
        /\ ThreeIncs /\ CountDrained(s) /\ subs[s].at = 0
        /\ Vals(s) = << Num(0), Num(1), Num(2), Num(3) >>

\* C11: a caller that assigns to a field of the value getCurrentState()
\* returned does not change what getCurrentState() returns afterwards.
C11_NoAliasing ==
    lastCall.op = "mutateCurrent" => heap[GetCurrentState] = lastCall.merged

\* The steps of setState that reach a collaborator or the subject, in the
\* order of lines 127-131.
WriteSteps == << "send", "setItem", "next" >>

\* Step x is among the effects of the last operation.
Did(x) == \E i \in 1..Len(lastCall.effects) : lastCall.effects[i] = x

\* C12: in every write call the merged state is sent to the dev tool (when
\* it is enabled and active), then stored (when persistence is enabled),
\* then published, in this order and each with the same merged value; a
\* state is published only after it has been sent and stored.
C12_WriteOrder ==
    lastCall.op \in WriteOps =>
        /\ lastCall.effects = SelectSeq(WriteSteps, Did)
        /\ Did("send") => baseState.t = "ref" /\ heap[baseState.v] = lastCall.merged
        /\ Did("setItem") =>
              /\ storage = lastCall.merged
              /\ Bridged(devToolIsEnabled, isActiveDevtool) => Did("send")
        /\ Did("next") =>
              /\ heap[state] = lastCall.merged
              /\ Bridged(devToolIsEnabled, isActiveDevtool) =>
                     Did("send") /\ baseState = Ref(state)
              /\ localStorageIsEnabled => Did("setItem") /\ storage = heap[state]

C12_Witness ==
    /\ lastCall.op = "setState" /\ lastCall.fn = "inc"
    /\ lastCall.effects = WriteSteps
    /\ baseState = Ref(state)
    /\ storage = heap[state]
    /\ heap[state] # heap[lastCall.prev]

\* C13: right after construction, firstState and the subject's opening value
\* are the stored snapshot when persistence is enabled and the adapter holds
\* one, and initialState() otherwise; with persistence disabled the adapter
\* is not read.
C13_FirstStateSource ==
    lastCall.op = "constructor" =>
        LET source == IF localStorageIsEnabled /\ Truthy(storage)
                      THEN storage ELSE initial
        IN  /\ heap[firstState] = source
            /\ heap[state] = source
            /\ Did("getItem") => localStorageIsEnabled

C13_Witness ==
    /\ lastCall.op = "constructor"
    /\ Len(calls) = 2 /\ calls[1].op = "setState" /\ calls[1].out = "ok"
    /\ localStorageIsEnabled /\ Did("getItem")
    /\ heap[state] = storage
    /\ storage # initial

\* No call so far ended with the persistence adapter throwing.
AdapterWorks == \A i \in 1..Len(calls) : calls[i].out # "setItem"

\* Some write call so far returned normally.
HasWritten ==
    \E i \in 1..Len(calls) : calls[i].op \in WriteOps /\ calls[i].out = "ok"

\* C19: with persistence enabled and an adapter that does not throw, once
\* a write has returned the stored value equals the current state after
\* every operation; ngOnDestroy leaves the stored value as it is, and a
\* store constructed again opens with the stored value.
C19_PersistenceConsistency ==
    [][ (localStorageIsEnabled /\ AdapterWorks' /\ HasWritten') =>
            /\ storage' = heap'[state']
            /\ lastCall'.op = "ngOnDestroy" => storage' = storage /\ state' = state
            /\ lastCall'.op = "constructor" =>
                    storage' = storage /\ heap'[firstState'] = storage
      ]_vars

C19_Witness ==
    /\ lastCall.op = "constructor"
    /\ localStorageIsEnabled /\ AdapterWorks /\ HasWritten
    /\ loaded
    /\ heap[state] = storage
    /\ heap[state] # initial

\* In heap h, v is what selector sel gives for the state at ref: its count,
\* or a copy of it.
Projects(h, sel, v, ref) ==
    IF sel = "count" THEN v = SelectCount(h[ref])
    ELSE v.t = "ref" /\ h[v.v] = h[ref]

\* C14: a subscriber's callback runs only in a step of the scheduler: not
\* in the step of a setState call, not while a setState call is on the
\* stack, not in the step that subscribes. What a step schedules is the
\* selector's value for the state getCurrentState() returns once the step
\* is over, and a callback receives what an earlier step scheduled.
C14_AsyncDelivery ==
    [][ /\ delivered' # delivered =>
              \/ /\ Len(subs') = Len(subs) + 1
                 /\ delivered' = Append(delivered, <<>>)
              \/ /\ ~outer.active /\ ~outer'.active
                 /\ calls' = calls /\ state' = state /\ subs' = subs
                 /\ tasks # <<>> /\ tasks' = Tail(tasks)
                 /\ Head(tasks).kind = "next"
                 /\ delivered'[Head(tasks).sub] =
                        Append(delivered[Head(tasks).sub],
                               [val |-> Head(tasks).val, destroyed |-> destroyed])
        /\ \A k \in (Len(tasks) + 1)..Len(tasks') :
              /\ tasks'[k].kind = "next"
              /\ Projects(heap', subs'[tasks'[k].sub].sel, tasks'[k].val, GetCurrentState')
      ]_vars

C14_Witness ==
    /\ ~outer.active
    /\ Len(calls) = 2 /\ calls[1].out = "ok" /\ calls[2].out = "ok"
    /\ "extra" \in DOMAIN heap[calls[1].ref].props
    /\ "extra" \notin DOMAIN heap[state].props
    /\ tasks = <<>>
    /\ Len(delivered) = 1 /\ Len(delivered[1]) = 3

\* The record merge {...a, ...b}.
Spread(a, b) == ObjectAssign(ObjectAssign(Literal(FALSE), a), b)

\* C20: when the reducer of a setState call calls setState, the inner
\* write is published first and the outer write is then merged over the
\* state read before the inner write ran: the final state is
\* {...stateBeforeOuter, ...outerPartial}. No callback runs while a call is
\* on the stack, and a write made outside any other call is merged over the
\* state current at that moment.
C20_ReentrantWrite ==
    [][ /\ (outer.active /\ ~outer'.active /\ lastCall.out = "ok"
            /\ lastCall'.out = "ok") =>
              /\ calls[Len(calls)].ref = state
              /\ state # outer.curr
              /\ calls' = Append(calls, calls'[Len(calls')])
              /\ calls'[Len(calls')].ref = state'
              /\ state' # state
              /\ heap'[state'] = Spread(heap[outer.curr], lastCall'.newState)
        /\ delivered' # delivered => ~outer.active
        /\ (~outer.active /\ calls' # calls /\ lastCall'.out = "ok") =>
              heap'[state'] = Spread(heap[state], lastCall'.newState)
      ]_vars

C20_Witness ==
    /\ ~outer.active
    /\ Len(calls) = 2 /\ calls[1].out = "ok" /\ calls[2].out = "ok"
    /\ calls[2].fn = "inc"
    /\ heap[calls[1].ref] = Rec(("count" :> 0) @@ ("extra" :> 1))
    /\ heap[state] = Rec("count" :> 1)

\* The states the subject has held, in order: the opening value, then what
\* each write published (references).
Published ==
    LET ok == SelectSeq(calls, LAMBDA c : c.ref # 0)
    IN  << 2 >> \o [i \in 1..Len(ok) |-> ok[i].ref]

\* The values vs[i..] are, in order, the selector's values for some of the
\* states ps[j..].
RECURSIVE IsSubsequence(_, _, _, _, _)
IsSubsequence(sel, vs, i, ps, j) ==
    IF i > Len(vs) THEN TRUE
    ELSE IF j > Len(ps) THEN FALSE
    ELSE IF Projects(heap, sel, vs[i], ps[j])
         THEN IsSubsequence(sel, vs, i + 1, ps, j + 1)
         ELSE IsSubsequence(sel, vs, i, ps, j + 1)

\* Every subscriber has received a value, and the last one it received is
\* the selector's value for the current state.
CaughtUp ==
    \A s \in 1..Len(subs) :
        /\ delivered[s] # <<>>
        /\ Projects(heap, subs[s].sel, delivered[s][Len(delivered[s])].val, state)

\* C15: what a subscriber has received is, in order, the selector's values
\* for some of the successive states of the subject, and in the end the
\* last value it received is the selector's value for the final state.
C15_PerSubscriberOrder ==
    /\ [](\A s \in 1..Len(subs) :
             IsSubsequence(subs[s].sel, Vals(s), 1, Published, 1))
    /\ <>[]CaughtUp

C15_Witness ==
    /\ Len(subs) = 1 /\ subs[1].sel = "count" /\ subs[1].at = 0
    /\ Len(calls) = 2 /\ calls[1].fn = "inc" /\ calls[2].fn = "inc"
    /\ Len(Published) = 3
    /\ Len(tasks) = 2
    /\ Vals(1) = << Num(0) >>

\* The number of states the subject had held when s subscribed.
From(s) == 1 + Cardinality({ i \in 1..subs[s].at : calls[i].ref # 0 })

\* seq without the elements equal to their predecessor.
RECURSIVE Distinct(_)
Distinct(seq) ==
    IF Len(seq) <= 1 THEN seq
    ELSE LET rest == Distinct(Tail(seq))
         IN  IF Head(seq) = Head(rest) THEN rest ELSE << Head(seq) >> \o rest

\* What subscriber s has received and what is scheduled for it, in order.
Received(s) == Vals(s) \o Pending(s)

\* C16: what a subscriber receives is fixed by its own selector and the
\* moment it subscribed: the selector's value for the state current at
\* that moment, then its values for the states published later (for
\* s => s.count, those that differ from the one before), whatever the
\* other subscribers are and received; no value of an earlier state.
C16_IndependentNoReplay ==
    \A s \in 1..Len(subs) :
        LET later == SubSeq(Published, From(s), Len(Published))
            got == Received(s)
        IN  IF subs[s].sel = "count"
            THEN got = Distinct([k \in 1..Len(later) |-> SelectCount(heap[later[k]])])
            ELSE /\ Len(got) = Len(later)
                 /\ \A k \in 1..Len(got) : Projects(heap, "default", got[k], later[k])

C16_Witness ==
    /\ Len(subs) = 2
    /\ subs[1].sel = "count" /\ subs[1].at = 0
    /\ subs[2].sel = "count" /\ subs[2].at = 1
    /\ Len(calls) = 2 /\ calls[1].fn = "inc" /\ calls[2].fn = "inc"
    /\ tasks = <<>>
    /\ Vals(1) = << Num(0), Num(1), Num(2) >>
    /\ Vals(2) = << Num(1), Num(2) >>

\* C17: with the dev tool active, the aggregate map holds, for every store
\* that has sent, that store's current state (looked at in the runs in
\* which no call has thrown).
C17_AggregateMap ==
    (isActiveDevtool /\ Thrown = 0) =>
        /\ devToolIsEnabled =>
              baseState.t = "ref" /\ heap[baseState.v] = heap[state]
        /\ peer.phase # "none" => peerBase = Val(peer.state)

\* A step of the first store, a step of the second.
MainStep == calls' # calls \/ destroyed' # destroyed
PeerStep == peer' # peer

\* C17, amended: the map holds, for every store that has sent, what that
\* store sent last: the merged state of its last write that reached the
\* dev tool, its first state after construction, undefined after its
\* teardown. This is the store's current state as long as the store is not
\* torn down and none of its writes threw. A send for one store leaves the
\* other store's entry as it is.
C17_AggregateMapAmended ==
    [][ /\ MainStep =>
              /\ peerBase' = peerBase
              /\ IF ~Bridged(devToolIsEnabled, isActiveDevtool)
                     \/ lastCall'.out = "stack"
                 THEN baseState' = baseState
                 ELSE IF lastCall'.op = "ngOnDestroy" THEN baseState' = Undef
                 ELSE /\ baseState'.t = "ref"
                      /\ heap'[baseState'.v] = lastCall'.merged
        /\ PeerStep =>
              /\ baseState' = baseState
              /\ IF ~isActiveDevtool THEN peerBase' = peerBase
                 ELSE IF peer'.phase = "destroyed" THEN peerBase' = Undef
                 ELSE peerBase' = Val(peer'.state)
        /\ (Bridged(devToolIsEnabled, isActiveDevtool) /\ ~destroyed' /\ Thrown' = 0) =>
              baseState'.t = "ref" /\ heap'[baseState'.v] = heap'[state']
        /\ (isActiveDevtool /\ peer'.phase = "live") => peerBase' = Val(peer'.state)
      ]_vars

C17_Witness ==
    /\ isActiveDevtool /\ devToolIsEnabled
    /\ destroyed /\ baseState = Undef
    /\ Len(calls) >= 1 /\ Thrown = 0
    /\ peer.phase = "live"
    /\ peer.state = Rec("n" :> 1)
    /\ peerBase = Val(peer.state)

\* C18: when the caller assigns to a field of the object it supplied to the
\* constructor, getCurrentState() does not change, and resetState() restores
\* the first state as it was at construction (initialState() when no
\* snapshot was loaded).
C18_ConstructionCopy ==
    /\ lastCall.op = "mutateSupplied" => heap[GetCurrentState] = lastCall.merged
    /\ (lastCall.op = "resetState" /\ ~loaded) => lastCall.newState = initial

====
